---- MODULE Spec2Model ----
(***************************************************************************)
(* devreplay: src/diff/makePatterns.ts.                                    *)
(*                                                                         *)
(* A JavaScript string is a sequence of one-character strings, so that     *)
(* concatenation, slicing, includes() and the regular expression of        *)
(* isAbstractable are computed character by character.  undefined is the   *)
(* record Undefined; the number Infinity (Math.min of nothing) is the      *)
(* record Infinity, finite numbers n of that computation are Num(n).       *)
(***************************************************************************)
EXTENDS Integers, Sequences, FiniteSets

VARIABLES
    chunks,             \* makePatternsFromDiff: the Chunk[] of makeDiffObj(diff)
    idx,                \* makePatternsFromDiff: position of the for-of loop (1-based)
    patterns,           \* makePatternsFromDiff: const patterns: Pattern[]
    args,               \* makePatterns: its arguments before, after, source
    pc,                 \* where the running async function is suspended
    calls,              \* per makePatterns call: how often tokenize was called per side
    beforeTokens,       \* makePatterns: const beforeTokens
    afterTokens,        \* makePatterns: const afterTokens
    identifiers,        \* makePatterns: const identifiers
    conditionPatterns,  \* makePatterns: const conditionPatterns
    consequentPatterns, \* makePatterns: const consequentPatterns
    pattern             \* the value the promise of makePatterns resolved to

vars == <<chunks, idx, patterns, args, pc, calls, beforeTokens, afterTokens,
          identifiers, conditionPatterns, consequentPatterns, pattern>>

-----------------------------------------------------------------------------
(* Bounds of the model.                                                    *)

\* tokens per side of a before/after pair
MaxTokens == 2
\* chunks of a diff
MaxChunks == 2
\* columns by which the indentation check shifts both sides
MaxShift == 2

-----------------------------------------------------------------------------
(* Values of the language.                                                 *)

Undefined == [undefined |-> TRUE]

Infinity == [inf |-> TRUE, n |-> 0]

Num(n) == [inf |-> FALSE, n |-> n]

\* Math.min(a, b) on numbers that may be Infinity
MathMin2(a, b) ==
    IF a.inf THEN b
    ELSE IF b.inf THEN a
    ELSE IF a.n <= b.n THEN a ELSE b

RECURSIVE MathMinFrom(_, _, _)
\* Math.min(...xs): Infinity for no argument
MathMinFrom(xs, i, acc) ==
    IF i > Len(xs) THEN acc ELSE MathMinFrom(xs, i + 1, MathMin2(acc, Num(xs[i])))

MathMin(xs) == MathMinFrom(xs, 1, Infinity)

\* ' '.repeat(n); n >= 0 for tokens in reading order, whose columns count
\* from 1 (a negative n would raise a RangeError)
Repeat(n) == [i \in 1..n |-> " "]

\* s.slice(m) for m >= 0 or m = Infinity
Slice(s, m) == IF m.inf THEN <<>> ELSE SubSeq(s, m.n + 1, Len(s))

\* s.includes(needle)
Includes(s, needle) ==
    \E i \in 1..(Len(s) - Len(needle) + 1) : SubSeq(s, i, i + Len(needle) - 1) = needle

DigitChars == <<"0","1","2","3","4","5","6","7","8","9">>

Digit == {DigitChars[i] : i \in 1..Len(DigitChars)}

Lower == {"a","b","c","d","e","f","g","h","i","j","k","l","m","n","o","p","q","r","s","t","u","v","w","x","y","z"}

Upper == {"A","B","C","D","E","F","G","H","I","J","K","L","M","N","O","P","Q","R","S","T","U","V","W","X","Y","Z"}

Letter == Lower \cup Upper

RECURSIVE ToString(_)
\* the decimal digits of a number >= 0, as `${identIndex}` writes them
ToString(k) ==
    IF k < 10 THEN <<DigitChars[k + 1]>>
    ELSE ToString(k \div 10) \o <<DigitChars[(k % 10) + 1]>>

-----------------------------------------------------------------------------
(* The pure functions of makePatterns.ts.                                  *)

\* token.scopes[token.scopes.length - 1]
InnermostScope(token) == token.scopes[Len(token.scopes)]

RECURSIVE checkInIdentifiersFrom(_, _, _)
checkInIdentifiersFrom(idents, token, identIndex) ==
    IF identIndex > Len(idents) THEN 0
    ELSE IF token.value = idents[identIndex].value
            /\ InnermostScope(token) = idents[identIndex].scope
         THEN identIndex
         ELSE checkInIdentifiersFrom(idents, token, identIndex + 1)

\* the 1-based index of the first identifier with the token's value and
\* innermost scope; 0 stands for the undefined the code returns when none has
checkInIdentifiers(idents, token) == checkInIdentifiersFrom(idents, token, 1)

\* /^([a-zA-Z][a-zA-Z0-9]*)|[0-9]+$/i has two alternatives: the first is
\* anchored at the start only, the second at the end only
MatchesFirstAlternative(value) ==
    \E n \in 1..Len(value) :
        /\ value[1] \in Letter
        /\ \A i \in 2..n : value[i] \in Letter \cup Digit

MatchesSecondAlternative(value) ==
    \E i \in 1..Len(value) : \A j \in i..Len(value) : value[j] \in Digit

isAlphanumeric(value) ==
    MatchesFirstAlternative(value) \/ MatchesSecondAlternative(value)

kwKeyword == <<"k","e","y","w","o","r","d">>

kwBuiltin == <<"b","u","i","l","t","i","n">>

kwStorage == <<"s","t","o","r","a","g","e">>

\* isAbstractable without the test for a storage scope
isAbstractableNoStorage(token) ==
    /\ isAlphanumeric(token.value)
    /\ ~Includes(InnermostScope(token), kwKeyword)
    /\ ~Includes(InnermostScope(token), kwBuiltin)

isAbstractable(token) ==
    /\ isAlphanumeric(token.value)
    /\ ~Includes(InnermostScope(token), kwKeyword)
    /\ ~Includes(InnermostScope(token), kwBuiltin)
    /\ ~Includes(InnermostScope(token), kwStorage)

RECURSIVE collectInner(_, _, _, _)
\* the inner loop of collectCommonIdentifiers, over afterTokens
collectInner(idents, beforeToken, afterToks, j) ==
    IF j > Len(afterToks) THEN idents
    ELSE collectInner(
            IF /\ beforeToken.value = afterToks[j].value
               /\ InnermostScope(beforeToken) = InnermostScope(afterToks[j])
               /\ checkInIdentifiers(idents, beforeToken) = 0
               /\ isAbstractable(beforeToken)
            THEN Append(idents, [value |-> beforeToken.value,
                                 scope |-> InnermostScope(beforeToken)])
            ELSE idents,
            beforeToken, afterToks, j + 1)

RECURSIVE collectOuter(_, _, _, _)
\* the outer loop of collectCommonIdentifiers, over beforeTokens
collectOuter(idents, beforeToks, afterToks, i) ==
    IF i > Len(beforeToks) THEN idents
    ELSE collectOuter(collectInner(idents, beforeToks[i], afterToks, 1),
                      beforeToks, afterToks, i + 1)

\* collectCommonIdentifiers with its loops exchanged: the after-tokens outside
collectCommonIdentifiersAfterOutside(beforeToks, afterToks) ==
    collectOuter(<<>>, afterToks, beforeToks, 1)

collectCommonIdentifiers(beforeToks, afterToks) ==
    collectOuter(<<>>, beforeToks, afterToks, 1)

\* the placeholder with the 0-based position of the identifier
PlaceholderZeroBased(identIndex, scope) ==
    <<"$", "{">> \o ToString(identIndex - 1) \o <<":">> \o scope \o <<"}">>

\* `\${${identIndex}:${scope}}`
Placeholder(identIndex, scope) ==
    <<"$", "{">> \o ToString(identIndex) \o <<":">> \o scope \o <<"}">>

\* the loop body of makeAbstractedCode without the flush at a new line
abstractStepOneLine(st, token, idents) ==
    LET spaceNum == token.columns.start - st.previousPosition
        identIndex == checkInIdentifiers(idents, token)
        value == IF identIndex # 0
                 THEN Placeholder(identIndex, InnermostScope(token))
                 ELSE token.value
    IN [patterns |-> st.patterns,
        previousPosition |-> token.columns.end,
        previousLine |-> token.line,
        lineContents |-> st.lineContents \o Repeat(spaceNum) \o value]

\* one pass of the loop body of makeAbstractedCode; st holds its locals
abstractStep(st, token, idents) ==
    LET line0 == IF st.previousLine = 0 THEN token.line ELSE st.previousLine
        flush == token.line # line0
        pats == IF flush THEN Append(st.patterns, st.lineContents) ELSE st.patterns
        pos == IF flush THEN 1 ELSE st.previousPosition
        contents == IF flush THEN <<>> ELSE st.lineContents
        spaceNum == token.columns.start - pos
        identIndex == checkInIdentifiers(idents, token)
        value == IF identIndex # 0
                 THEN Placeholder(identIndex, InnermostScope(token))
                 ELSE token.value
    IN [patterns |-> pats,
        previousPosition |-> token.columns.end,
        previousLine |-> IF flush THEN token.line ELSE line0,
        lineContents |-> contents \o Repeat(spaceNum) \o value]

RECURSIVE abstractLoop(_, _, _, _)
abstractLoop(st, tokens, idents, i) ==
    IF i > Len(tokens) THEN st
    ELSE abstractLoop(abstractStep(st, tokens[i], idents), tokens, idents, i + 1)

\* makeAbstractedCode flushing the last line only when it has text
makeAbstractedCodeNoEmptyLine(tokens, idents) ==
    LET st == abstractLoop([patterns |-> <<>>, previousPosition |-> 1,
                            previousLine |-> 0, lineContents |-> <<>>],
                           tokens, idents, 1)
    IN IF st.lineContents = <<>> THEN st.patterns
       ELSE Append(st.patterns, st.lineContents)

makeAbstractedCode(tokens, idents) ==
    LET st == abstractLoop([patterns |-> <<>>, previousPosition |-> 1,
                            previousLine |-> 0, lineContents |-> <<>>],
                           tokens, idents, 1)
    IN Append(st.patterns, st.lineContents)

\* isEmptyPattern taking a pattern without any line for the empty one
isEmptyPatternNoLine(p) == Len(p) = 0

isEmptyPattern(p) == Len(p) = 1 /\ p[1] = <<>>

RECURSIVE countLeading(_, _)
\* the inner loop of countSpace: the spaces up to the first other character
countLeading(patternLine, i) ==
    IF i > Len(patternLine) \/ patternLine[i] # " " THEN i - 1
    ELSE countLeading(patternLine, i + 1)

RECURSIVE countSpaceFrom(_, _, _)
countSpaceFrom(patternLines, i, spaces) ==
    IF i > Len(patternLines) THEN spaces
    ELSE countSpaceFrom(patternLines, i + 1,
            IF patternLines[i] = <<>> THEN spaces
            ELSE Append(spaces, countLeading(patternLines[i], 1)))

\* countSpace finding no indentation
countSpaceNone(patternLines) == Num(0)

countSpace(patternLines) == MathMin(countSpaceFrom(patternLines, 1, <<>>))

\* formatPatterns taking the indentation of the condition alone
formatPatternsByCondition(conditon, consequent) ==
    LET minSpace == countSpace(conditon)
    IN [condition |-> [i \in 1..Len(conditon) |-> Slice(conditon[i], minSpace)],
        consequent |-> [i \in 1..Len(consequent) |-> Slice(consequent[i], minSpace)]]

formatPatterns(conditon, consequent) ==
    LET minSpace == MathMin2(countSpace(conditon), countSpace(consequent))
    IN [condition |-> [i \in 1..Len(conditon) |-> Slice(conditon[i], minSpace)],
        consequent |-> [i \in 1..Len(consequent) |-> Slice(consequent[i], minSpace)]]

\* identifiers.map(identifier => identifier.value)
identifierValues(idents) == [i \in 1..Len(idents) |-> idents[i].value]

\* makePatterns from line 39 on: what it returns for two token streams
buildPattern(beforeToks, afterToks) ==
    LET idents == collectCommonIdentifiers(beforeToks, afterToks)
        formatted == formatPatterns(makeAbstractedCode(beforeToks, idents),
                                    makeAbstractedCode(afterToks, idents))
    IN [condition |-> formatted.condition,
        consequent |-> formatted.consequent,
        identifiers |-> identifierValues(idents)]

-----------------------------------------------------------------------------
(* The tokenizer's side: what source-code-tokenizer hands to makePatterns. *)

sSource == <<"s","o","u","r","c","e",".","j","s">>

sVariable == <<"v","a","r","i","a","b","l","e">>

sFunction == <<"e","n","t","i","t","y",".","n","a","m","e">>

sKeyword == <<"k","e","y","w","o","r","d",".","c","o","n","t","r","o","l">>

sBuiltin == <<"s","u","p","p","o","r","t",".","b","u","i","l","t","i","n">>

sStorage == <<"s","t","o","r","a","g","e",".","t","y","p","e">>

sNumeric == <<"c","o","n","s","t","a","n","t",".","n","u","m","e","r","i","c">>

sPunct == <<"p","u","n","c","t","u","a","t","i","o","n">>

Lexeme(v, s) == [value |-> v, scope |-> s]

\* a Token of source-code-tokenizer: lines and columns count from 1, and a
\* token ends where its value ends
Token(lex, line, start) ==
    [value |-> lex.value, scopes |-> <<sSource, lex.scope>>, line |-> line,
     columns |-> [start |-> start, end |-> start + Len(lex.value)]]

RECURSIVE LayOut(_, _, _, _)
\* the tokens of a text in reading order: item i is a lexeme, the number of
\* line breaks before it (step) and the number of spaces before it (gap)
LayOut(items, i, line, pos) ==
    IF i > Len(items) THEN <<>>
    ELSE LET it == items[i]
             l == line + it.step
             start == (IF it.step > 0 THEN 1 ELSE pos) + it.gap
             tok == Token(it.lex, l, start)
         IN <<tok>> \o LayOut(items, i + 1, l, tok.columns.end)

TokenStream(items) == LayOut(items, 1, 1, 1)

Streams(itemSet, n) ==
    {TokenStream(items) : items \in UNION {[1..k -> itemSet] : k \in 0..n}}

\* a text the tokenizer can tokenize, named by its tokens
Text(tokens) == [ok |-> TRUE, tokens |-> tokens]

\* a text the tokenizer cannot tokenize
Untokenizable == [ok |-> FALSE, tokens |-> <<>>]

Javascript == [lang |-> "javascript"]

\* await tokenize(text, source)
tokenize(text, source) == IF text.ok THEN [tokens |-> text.tokens] ELSE Undefined

-----------------------------------------------------------------------------
(* makePatterns and makePatternsFromDiff as they run: an action is the     *)
(* code between two suspensions (await) of the running async function.     *)

\* makePatterns(a.before, a.after, a.source) up to its first await
StartCall(a) ==
    LET absent == a.before = Undefined \/ a.after = Undefined \/ a.source = Undefined
    IN /\ args' = a
       /\ beforeTokens' = Undefined
       /\ afterTokens' = Undefined
       /\ identifiers' = <<>>
       /\ conditionPatterns' = <<>>
       /\ consequentPatterns' = <<>>
       /\ pattern' = Undefined
       /\ calls' = Append(calls, [before |-> IF absent THEN 0 ELSE 1, after |-> 0])
       /\ pc' = IF absent THEN "returned" ELSE "awaitBefore"

\* a caller invokes makePatterns(before, after, source)
makePatterns_call ==
    /\ pc = "called"
    /\ StartCall(args)
    /\ UNCHANGED <<chunks, idx, patterns>>

\* tokenize(before, source) has settled; tokenize(after, source) is called
makePatterns_resumeBefore ==
    /\ pc = "awaitBefore"
    /\ beforeTokens' = tokenize(args.before, args.source)
    /\ calls' = [calls EXCEPT ![Len(calls)].after = @ + 1]
    /\ pc' = "awaitAfter"
    /\ UNCHANGED <<chunks, idx, patterns, args, afterTokens, identifiers,
                   conditionPatterns, consequentPatterns, pattern>>

\* tokenize(after, source) has settled; the rest of makePatterns runs
makePatterns_resumeAfter ==
    /\ pc = "awaitAfter"
    /\ LET aft == tokenize(args.after, args.source)
       IN /\ afterTokens' = aft
          /\ IF beforeTokens = Undefined \/ aft = Undefined
             THEN /\ pattern' = Undefined
                  /\ UNCHANGED <<identifiers, conditionPatterns, consequentPatterns>>
             ELSE LET idents == collectCommonIdentifiers(beforeTokens.tokens, aft.tokens)
                      cond == makeAbstractedCode(beforeTokens.tokens, idents)
                      cons == makeAbstractedCode(aft.tokens, idents)
                      formatted == formatPatterns(cond, cons)
                  IN /\ identifiers' = idents
                     /\ conditionPatterns' = cond
                     /\ consequentPatterns' = cons
                     /\ pattern' = [condition |-> formatted.condition,
                                    consequent |-> formatted.consequent,
                                    identifiers |-> identifierValues(idents)]
    /\ pc' = "returned"
    /\ UNCHANGED <<chunks, idx, patterns, args, calls, beforeTokens>>

\* makePatternsFromChunk: the arguments it passes on; join() always yields a
\* string, so before and after are never undefined here
makePatternsFromChunk(chunk) ==
    [before |-> chunk.deleted, after |-> chunk.added, source |-> chunk.source]

\* what the promise of makePatterns(a.before, a.after, a.source) resolves to
makePatternsResult(a) ==
    IF a.before = Undefined \/ a.after = Undefined \/ a.source = Undefined
    THEN Undefined
    ELSE LET bef == tokenize(a.before, a.source)
             aft == tokenize(a.after, a.source)
         IN IF bef = Undefined \/ aft = Undefined THEN Undefined
            ELSE buildPattern(bef.tokens, aft.tokens)

RECURSIVE makePatternsFromDiffLoop(_, _, _)
makePatternsFromDiffLoop(cs, i, acc) ==
    IF i > Len(cs) THEN acc
    ELSE LET p == makePatternsResult(makePatternsFromChunk(cs[i]))
         IN makePatternsFromDiffLoop(cs, i + 1,
                IF /\ p # Undefined
                   /\ ~isEmptyPattern(p.condition)
                   /\ ~isEmptyPattern(p.consequent)
                THEN Append(acc, p) ELSE acc)

\* what the promise of makePatternsFromDiff resolves to for the chunks cs
makePatternsFromDiffResult(cs) == makePatternsFromDiffLoop(cs, 1, <<>>)

\* the for-of loop of makePatternsFromDiff arriving at chunk i
LoopAt(i) ==
    /\ idx' = i
    /\ IF i > Len(chunks)
       THEN /\ pc' = "done"
            /\ UNCHANGED <<args, calls, beforeTokens, afterTokens, identifiers,
                           conditionPatterns, consequentPatterns, pattern>>
       ELSE StartCall(makePatternsFromChunk(chunks[i]))

\* makePatternsFromDiff(diff) up to its first await
makePatternsFromDiff_call ==
    /\ pc = "diff"
    /\ patterns' = <<>>
    /\ LoopAt(1)
    /\ UNCHANGED chunks

\* the loop of makePatternsFromDiff ending at the first chunk without a pattern
makePatternsFromDiff_resumeUntilUndefined ==
    /\ pc = "returned"
    /\ idx >= 1
    /\ patterns' = IF /\ pattern # Undefined
                      /\ ~isEmptyPattern(pattern.condition)
                      /\ ~isEmptyPattern(pattern.consequent)
                   THEN Append(patterns, pattern)
                   ELSE patterns
    /\ LoopAt(IF pattern = Undefined THEN Len(chunks) + 1 ELSE idx + 1)
    /\ UNCHANGED chunks

\* the await of line 15 has settled: the filter, the push, the next chunk
makePatternsFromDiff_resume ==
    /\ pc = "returned"
    /\ idx >= 1
    /\ patterns' = IF /\ pattern # Undefined
                      /\ ~isEmptyPattern(pattern.condition)
                      /\ ~isEmptyPattern(pattern.consequent)
                   THEN Append(patterns, pattern)
                   ELSE patterns
    /\ LoopAt(idx + 1)
    /\ UNCHANGED chunks

-----------------------------------------------------------------------------
(* Inputs.                                                                 *)

vFoo == <<"f","o","o">>

vArr == <<"a","r","r">>

vIf == <<"i","f">>

vLet == <<"l","e","t">>

vArray == <<"A","r","r","a","y">>

vFooBar == <<"f","o","o","_","b","a","r">>

v10 == <<"1","0">>

vPlus == <<"+">>

vPlus1 == <<"+","1">>

\* an item of a text laid out plainly: on the line of the previous token,
\* one space after it
Plain(lex) == [lex |-> lex, step |-> 0, gap |-> 1]

\* tokens that differ in value, in scope or in both
UnifyItems ==
    {Plain(Lexeme(vFoo, sVariable)), Plain(Lexeme(vArr, sVariable)),
     Plain(Lexeme(vFoo, sFunction)), Plain(Lexeme(vIf, sKeyword)),
     Plain(Lexeme(vPlus, sPunct)), Plain(Lexeme(v10, sNumeric))}

\* tokens of every kind of scope, and values with and without punctuation
ScopeItems ==
    {Plain(Lexeme(vFoo, sVariable)), Plain(Lexeme(vIf, sKeyword)),
     Plain(Lexeme(vArray, sBuiltin)), Plain(Lexeme(vLet, sStorage)),
     Plain(Lexeme(vFooBar, sVariable)), Plain(Lexeme(vPlus1, sNumeric))}

\* two tokens in every position: next to the previous token or after spaces,
\* on its line, on the next line or after a blank line, indented or not
LayoutItems ==
    {[lex |-> l, step |-> s, gap |-> g] :
        l \in {Lexeme(vFoo, sVariable), Lexeme(vIf, sKeyword)},
        s \in {0, 1, 2}, g \in {0, 2}}

\* the other side of a pair whose one side runs over every layout
LayoutOthers ==
    {TokenStream(<<>>),
     TokenStream(<<[lex |-> Lexeme(vFoo, sVariable), step |-> 0, gap |-> 0]>>),
     TokenStream(<<[lex |-> Lexeme(vFoo, sVariable), step |-> 0, gap |-> 1]>>),
     TokenStream(<<[lex |-> Lexeme(vIf, sKeyword), step |-> 0, gap |-> 3],
                   [lex |-> Lexeme(vFoo, sVariable), step |-> 1, gap |-> 4]>>)}

\* calls in which something is missing: an argument is absent, or a text is
\* one the tokenizer gives up on
EdgeCalls ==
    LET some == TokenStream(<<Plain(Lexeme(vFoo, sVariable))>>)
        arguments == {Undefined, Untokenizable, Text(some)}
    IN {[before |-> b, after |-> a, source |-> s] :
            b \in arguments, a \in arguments, s \in {Javascript, Undefined}}

\* the calls of makePatterns on texts with the given tokens, and the edge calls
Calls(befores, afters) ==
    {[before |-> Text(b), after |-> Text(a), source |-> Javascript] :
        b \in befores, a \in afters} \cup EdgeCalls

\* the texts of the chunks of a diff
DiffTexts ==
    {Untokenizable, Text(<<>>),
     Text(TokenStream(<<Plain(Lexeme(vFoo, sVariable))>>)),
     Text(TokenStream(<<Plain(Lexeme(vIf, sKeyword)),
                        [lex |-> Lexeme(vArr, sVariable), step |-> 1, gap |-> 2]>>))}

\* the chunks of a diff: every pair of texts, and a chunk without a source
Chunks ==
    {[deleted |-> d, added |-> a, source |-> Javascript] :
        d \in DiffTexts, a \in DiffTexts}
    \cup {[deleted |-> Text(<<>>), added |-> Text(<<>>), source |-> Undefined]}

-----------------------------------------------------------------------------
(* Specifications.                                                         *)

\* nothing has run yet
Fresh ==
    /\ calls = <<>>
    /\ beforeTokens = Undefined
    /\ afterTokens = Undefined
    /\ identifiers = <<>>
    /\ conditionPatterns = <<>>
    /\ consequentPatterns = <<>>
    /\ pattern = Undefined
    /\ patterns = <<>>
    /\ idx = 0

\* one call of makePatterns with the given arguments
InitCall(callSet) ==
    /\ args \in callSet
    /\ chunks = <<>>
    /\ pc = "called"
    /\ Fresh

InitUnify == InitCall(Calls(Streams(UnifyItems, MaxTokens), Streams(UnifyItems, MaxTokens)))

InitScope == InitCall(Calls(Streams(ScopeItems, MaxTokens), Streams(ScopeItems, MaxTokens)))

InitLayout ==
    InitCall(Calls(Streams(LayoutItems, MaxTokens), LayoutOthers)
             \cup Calls(LayoutOthers, Streams(LayoutItems, MaxTokens)))

\* one call of makePatternsFromDiff on a diff with the given chunks
InitDiff ==
    /\ chunks \in UNION {[1..n -> Chunks] : n \in 0..MaxChunks}
    /\ args = [before |-> Undefined, after |-> Undefined, source |-> Undefined]
    /\ pc = "diff"
    /\ Fresh

\* either entry point is called: makePatternsFromDiff, or makePatterns itself
Init == InitDiff \/ InitCall(EdgeCalls)

NextCall ==
    \/ makePatterns_call
    \/ makePatterns_resumeBefore
    \/ makePatterns_resumeAfter

Next ==
    \/ makePatternsFromDiff_call
    \/ makePatterns_call
    \/ makePatterns_resumeBefore
    \/ makePatterns_resumeAfter
    \/ makePatternsFromDiff_resume

Spec == Init /\ [][Next]_vars

SpecUnify == InitUnify /\ [][NextCall]_vars

SpecScope == InitScope /\ [][NextCall]_vars

SpecLayout == InitLayout /\ [][NextCall]_vars

-----------------------------------------------------------------------------
(* Reading a run: the inputs and the text of the result.                   *)

\* makePatterns has returned a Pattern
Built == pc = "returned" /\ pattern # Undefined

BeforeToks == beforeTokens.tokens

AfterToks == afterTokens.tokens

\* the (value, innermost scope) pair of a token
Pair(t) == [value |-> t.value, scope |-> t.scopes[Len(t.scopes)]]

Range(f) == {f[i] : i \in DOMAIN f}

\* the scope names a keyword, a builtin or a storage class
ProtectedScope(scope) ==
    \/ Includes(scope, <<"k","e","y","w","o","r","d">>)
    \/ Includes(scope, <<"b","u","i","l","t","i","n">>)
    \/ Includes(scope, <<"s","t","o","r","a","g","e">>)

\* the whole value is a letter followed by letters and digits, or is digits
IdentifierOrNumber(value) ==
    /\ Len(value) > 0
    /\ \/ value[1] \in Letter /\ \A i \in 1..Len(value) : value[i] \in Letter \cup Digit
       \/ \A i \in 1..Len(value) : value[i] \in Digit

\* the texts of a sequence, one after the other
Flatten(ss) ==
    LET RECURSIVE F(_)
        F(i) == IF i > Len(ss) THEN <<>> ELSE ss[i] \o F(i + 1)
    IN F(1)

\* a text without its spaces
NoSpaces(text) == SelectSeq(text, LAMBDA c : c # " ")

RECURSIVE SplitFrom(_, _, _)
\* the words of a text: its maximal runs of characters other than the space
SplitFrom(text, i, word) ==
    IF i > Len(text) THEN (IF word = <<>> THEN <<>> ELSE <<word>>)
    ELSE IF text[i] = " "
         THEN (IF word = <<>> THEN <<>> ELSE <<word>>) \o SplitFrom(text, i + 1, <<>>)
         ELSE SplitFrom(text, i + 1, Append(word, text[i]))

Words(lines) == Flatten([i \in 1..Len(lines) |-> SplitFrom(lines[i], 1, <<>>)])

\* a word of the form ${digits:scope}
IsPlaceholder(w) ==
    /\ Len(w) >= 5
    /\ w[1] = "$" /\ w[2] = "{" /\ w[Len(w)] = "}"
    /\ \E c \in 4..(Len(w) - 1) :
          /\ w[c] = ":"
          /\ \A i \in 3..(c - 1) : w[i] \in Digit

ColonOf(w) == CHOOSE c \in 4..(Len(w) - 1) : w[c] = ":" /\ \A i \in 3..(c - 1) : w[i] \in Digit

DigitValue(d) == CHOOSE n \in 0..9 : DigitChars[n + 1] = d

RECURSIVE NumberOf(_)
\* the number a run of decimal digits writes
NumberOf(ds) ==
    IF ds = <<>> THEN 0
    ELSE 10 * NumberOf(SubSeq(ds, 1, Len(ds) - 1)) + DigitValue(ds[Len(ds)])

PlaceholderIndex(w) == NumberOf(SubSeq(w, 3, ColonOf(w) - 1))

PlaceholderScope(w) == SubSeq(w, ColonOf(w) + 1, Len(w) - 1)

-----------------------------------------------------------------------------
(* Placeholders and identifiers.                                           *)

\* word i of the lines stands for token i; where it is a placeholder, its
\* index names an entry of the pattern's identifiers, that entry is the
\* token's value, and it carries the token's innermost scope
AlignedSide(lines, toks) ==
    LET ws == Words(lines)
    IN /\ Len(ws) = Len(toks)
       /\ \A i \in 1..Len(ws) :
            IsPlaceholder(ws[i]) =>
                LET k == PlaceholderIndex(ws[i])
                IN /\ k \in 1..Len(pattern.identifiers)
                   /\ pattern.identifiers[k] = toks[i].value
                   /\ PlaceholderScope(ws[i]) = Pair(toks[i]).scope

\* C1: in every Pattern makePatterns returns, each placeholder ${k:scope} of
\* condition and consequent has 1 <= k <= identifiers.length, identifiers[k-1]
\* is the value of the token it replaced, and a (value, scope) pair is written
\* the same way on both sides.
C1_PlaceholderAlignment ==
    Built =>
        /\ AlignedSide(pattern.condition, BeforeToks)
        /\ AlignedSide(pattern.consequent, AfterToks)
        /\ \A i \in 1..Len(BeforeToks), j \in 1..Len(AfterToks) :
              Pair(BeforeToks[i]) = Pair(AfterToks[j]) =>
                  Words(pattern.condition)[i] = Words(pattern.consequent)[j]

\* two identifiers, both replaced on both sides, in opposite orders
C1_Witness ==
    /\ Built
    /\ Len(pattern.identifiers) = 2
    /\ Len(BeforeToks) = 2 /\ Len(AfterToks) = 2
    /\ PlaceholderIndex(Words(pattern.condition)[1]) = 1
    /\ PlaceholderIndex(Words(pattern.condition)[2]) = 2
    /\ PlaceholderIndex(Words(pattern.consequent)[1]) = 2
    /\ PlaceholderIndex(Words(pattern.consequent)[2]) = 1

\* the pairs of abstractable before-tokens that some after-token shares
CommonPairs ==
    {Pair(BeforeToks[i]) :
        i \in {i \in 1..Len(BeforeToks) :
                 /\ isAbstractable(BeforeToks[i])
                 /\ \E j \in 1..Len(AfterToks) : Pair(AfterToks[j]) = Pair(BeforeToks[i])}}

\* where a pair first occurs among the before-tokens
FirstOccurrence(p) ==
    CHOOSE i \in 1..Len(BeforeToks) :
        /\ Pair(BeforeToks[i]) = p
        /\ \A h \in 1..(i - 1) : Pair(BeforeToks[h]) # p

Permutations(n) == {f \in [1..n -> 1..n] : \A i, j \in 1..n : f[i] = f[j] => i = j}

\* C2: the identifiers are exactly the pairs of abstractable before-tokens
\* that an after-token shares, each once, in the order of their first
\* occurrence among the before-tokens, whatever the order of the after-tokens.
C2_CommonIdentifiers ==
    Built =>
        /\ Range(identifiers) = CommonPairs
        /\ \A k, l \in 1..Len(identifiers) : identifiers[k] = identifiers[l] => k = l
        /\ \A k, l \in 1..Len(identifiers) :
              k < l => FirstOccurrence(identifiers[k]) < FirstOccurrence(identifiers[l])
        /\ \A f \in Permutations(Len(AfterToks)) :
              collectCommonIdentifiers(BeforeToks,
                    [i \in 1..Len(AfterToks) |-> AfterToks[f[i]]]) = identifiers

\* two common pairs that the after-tokens have in the other order, next to a
\* run in which a pair occurs twice before and a token on one side only
C2_Witness ==
    /\ Built
    /\ Len(identifiers) = 2
    /\ Len(AfterToks) = 2
    /\ Pair(AfterToks[1]) = identifiers[2]
    /\ Pair(AfterToks[2]) = identifiers[1]

\* C6: a token whose innermost scope contains keyword, builtin or storage is
\* no identifier and is written as its literal value, also when a token of
\* its value and scope is on both sides.
C6_ProtectedScopesStayLiteral ==
    Built =>
        /\ \A k \in 1..Len(identifiers) : ~ProtectedScope(identifiers[k].scope)
        /\ \A i \in 1..Len(BeforeToks) :
              ProtectedScope(Pair(BeforeToks[i]).scope) =>
                  Words(pattern.condition)[i] = BeforeToks[i].value
        /\ \A j \in 1..Len(AfterToks) :
              ProtectedScope(Pair(AfterToks[j]).scope) =>
                  Words(pattern.consequent)[j] = AfterToks[j].value

\* a storage-class token and a builtin of the same value and scope on both sides
C6_Witness ==
    /\ Built
    /\ Len(BeforeToks) = 2 /\ Len(AfterToks) = 2
    /\ Includes(Pair(BeforeToks[1]).scope, <<"s","t","o","r","a","g","e">>)
    /\ Includes(Pair(BeforeToks[2]).scope, <<"b","u","i","l","t","i","n">>)
    /\ Pair(AfterToks[1]) = Pair(BeforeToks[1])
    /\ Pair(AfterToks[2]) = Pair(BeforeToks[2])
    /\ Words(pattern.condition) = <<BeforeToks[1].value, BeforeToks[2].value>>

\* C8: a token is abstractable exactly when its whole value is a letter
\* followed by letters and digits, or a run of digits, and its innermost scope
\* is no keyword, builtin or storage scope; a value with punctuation in it is
\* never an identifier.
C8_AbstractableIffIdentifierOrNumber ==
    Built =>
        /\ \A t \in Range(BeforeToks) \cup Range(AfterToks) :
              isAbstractable(t) <=>
                  (IdentifierOrNumber(t.value) /\ ~ProtectedScope(Pair(t).scope))
        /\ \A k \in 1..Len(identifiers) : IdentifierOrNumber(identifiers[k].value)

-----------------------------------------------------------------------------
(* Lines and indentation.                                                  *)

LineValues(toks) == {toks[i].line : i \in 1..Len(toks)}

\* the n-th smallest line value of the tokens
NthLine(toks, n) ==
    CHOOSE l \in LineValues(toks) : Cardinality({m \in LineValues(toks) : m < l}) = n - 1

\* what stands for a token in the output: the placeholder of its pair when
\* the pair is an identifier, its value otherwise
Written(t) ==
    IF Pair(t) \in Range(identifiers)
    THEN Placeholder(CHOOSE k \in 1..Len(identifiers) : identifiers[k] = Pair(t),
                     Pair(t).scope)
    ELSE t.value

TokensOfLine(toks, l) ==
    Flatten([i \in 1..Len(toks) |-> IF toks[i].line = l THEN Written(toks[i]) ELSE <<>>])

\* as many lines as the tokens have line values, line n holding the tokens
\* of the n-th smallest line value
LinesHoldTokens(out, toks) ==
    /\ Len(out) = Cardinality(LineValues(toks))
    /\ \A n \in 1..Len(out) : NoSpaces(out[n]) = TokensOfLine(toks, NthLine(toks, n))

\* C9 as stated: for every token stream, the empty one too, makeAbstractedCode
\* returns as many lines as the tokens have distinct line values, the n-th
\* holding the tokens of the n-th smallest line value.
C9_LinesAreDistinctLineValues ==
    Built =>
        /\ LinesHoldTokens(conditionPatterns, BeforeToks)
        /\ LinesHoldTokens(consequentPatterns, AfterToks)

LinesOrOneEmptyLine(out, toks) ==
    IF toks = <<>> THEN out = << <<>> >> ELSE LinesHoldTokens(out, toks)

\* C9 amended: for every stream of at least one token, makeAbstractedCode
\* returns as many lines as the tokens have distinct line values, the n-th
\* holding the tokens of the n-th smallest line value; for the empty stream
\* it returns the one empty line.
C9_LinesOfNonEmptyStreams ==
    Built =>
        /\ LinesOrOneEmptyLine(conditionPatterns, BeforeToks)
        /\ LinesOrOneEmptyLine(consequentPatterns, AfterToks)

\* two tokens below a blank first line, with a blank line between them; the
\* first is replaced by a placeholder
C9_Witness ==
    /\ Built
    /\ Len(BeforeToks) = 2
    /\ BeforeToks[1].line = 2 /\ BeforeToks[2].line = 4
    /\ Len(conditionPatterns) = 2
    /\ Pair(BeforeToks[1]) \in Range(identifiers)

Degenerate(lines) == lines = << <<>> >>

\* an argument is absent, or the tokenizer gives up on a text
Missing(a) ==
    \/ a.before = Undefined \/ a.after = Undefined \/ a.source = Undefined
    \/ ~a.before.ok \/ ~a.after.ok

\* C4 as stated: makePatterns returns undefined when a token stream is empty,
\* so no Pattern it returns has the one empty line as condition or consequent.
C4_NoPatternForEmptyStream ==
    pc = "returned" =>
        /\ (~Missing(args) /\ (args.before.tokens = <<>> \/ args.after.tokens = <<>>))
              => pattern = Undefined
        /\ pattern # Undefined =>
              ~Degenerate(pattern.condition) /\ ~Degenerate(pattern.consequent)

\* C4 amended: makePatterns returns undefined exactly when an argument is
\* absent or the tokenizer returns undefined for a side; a Pattern it returns
\* has the one empty line as condition (consequent) exactly when the before
\* (after) token stream is empty.
C4_UndefinedOnlyWhenMissing ==
    pc = "returned" =>
        /\ pattern = Undefined <=> Missing(args)
        /\ pattern # Undefined =>
              /\ Degenerate(pattern.condition) <=> BeforeToks = <<>>
              /\ Degenerate(pattern.consequent) <=> AfterToks = <<>>

\* a Pattern for an empty before-stream and after-tokens on two lines
C4_Witness ==
    /\ Built
    /\ BeforeToks = <<>>
    /\ Len(AfterToks) = 2
    /\ Degenerate(pattern.condition)
    /\ Len(pattern.consequent) = 2

\* the tokens moved k columns to the right
Shift(toks, k) ==
    [i \in 1..Len(toks) |->
        [toks[i] EXCEPT !.columns = [start |-> @.start + k, end |-> @.end + k]]]

\* C7: shifting every token of both sides right by the same number of
\* columns leaves condition, consequent and identifiers as they are.
C7_IndentationInvariance ==
    Built =>
        \A k \in 0..MaxShift :
            buildPattern(Shift(BeforeToks, k), Shift(AfterToks, k)) = pattern

\* the number of spaces a line begins with
Leading(line) ==
    CHOOSE n \in 0..Len(line) :
        /\ \A i \in 1..n : line[i] = " "
        /\ n = Len(line) \/ line[n + 1] # " "

\* two lines of different indentation, the shallower one indented itself,
\* against a side that begins in the first column
C7_Witness ==
    /\ Built
    /\ Len(conditionPatterns) = 2
    /\ Leading(conditionPatterns[1]) = 2
    /\ Leading(conditionPatterns[2]) = 0
    /\ Len(consequentPatterns) = 2
    /\ Leading(consequentPatterns[1]) = 3
    /\ identifiers # <<>>

\* the indentations of the non-empty lines of both sides
Indents ==
    {Leading(l) : l \in {l \in Range(conditionPatterns) \cup Range(consequentPatterns) :
                            l # <<>>}}

MinIndent == CHOOSE m \in Indents : \A n \in Indents : m <= n

\* the lines as they were, each non-empty one without its first m
\* characters, which were spaces
Trimmed(in, out, m) ==
    /\ Len(out) = Len(in)
    /\ \A i \in 1..Len(in) :
          IF in[i] = <<>> THEN out[i] = <<>>
          ELSE /\ Len(in[i]) = Len(out[i]) + m
               /\ \A j \in 1..m : in[i][j] = " "
               /\ out[i] = SubSeq(in[i], m + 1, Len(in[i]))

\* C10: formatPatterns returns the lines of both sides in their order, each
\* without its first m characters, all spaces, m being the least indentation
\* of the non-empty lines of both sides, taken from the other side when a
\* side has no non-empty line; with no non-empty line at all the lines are
\* returned as they are.
C10_UniformTrim ==
    Built =>
        IF Indents = {}
        THEN /\ pattern.condition = conditionPatterns
             /\ pattern.consequent = consequentPatterns
        ELSE /\ Trimmed(conditionPatterns, pattern.condition, MinIndent)
             /\ Trimmed(consequentPatterns, pattern.consequent, MinIndent)

\* a condition without a non-empty line, and a consequent of two lines of
\* different indentation that loses three spaces per line
C10_Witness ==
    /\ Built
    /\ conditionPatterns = << <<>> >>
    /\ Len(consequentPatterns) = 2
    /\ Leading(consequentPatterns[1]) = 3
    /\ Leading(consequentPatterns[2]) = 4
    /\ Leading(pattern.consequent[1]) = 0
    /\ Leading(pattern.consequent[2]) = 1

-----------------------------------------------------------------------------
(* The patterns of a diff.                                                 *)

\* the result of makePatternsFromChunk for a chunk
ChunkPattern(c) == makePatternsResult(makePatternsFromChunk(c))

\* the chunks the loop of makePatternsFromDiff is through with
Processed == IF pc = "done" THEN Len(chunks) ELSE idx - 1

\* the processed chunks whose pattern is defined and not degenerate
KeptChunks ==
    {i \in 1..Processed :
        /\ ChunkPattern(chunks[i]) # Undefined
        /\ ~Degenerate(ChunkPattern(chunks[i]).condition)
        /\ ~Degenerate(ChunkPattern(chunks[i]).consequent)}

NthKept(k) == CHOOSE i \in KeptChunks : Cardinality({h \in KeptChunks : h < i}) = k - 1

\* C3: the list of makePatternsFromDiff holds no pattern whose condition or
\* consequent is the one empty line, and is the defined, non-degenerate
\* results of makePatternsFromChunk in the order of their chunks.
C3_PatternsAreKeptChunksInOrder ==
    /\ \A k \in 1..Len(patterns) :
          ~Degenerate(patterns[k].condition) /\ ~Degenerate(patterns[k].consequent)
    /\ Len(patterns) = Cardinality(KeptChunks)
    /\ \A k \in 1..Len(patterns) : patterns[k] = ChunkPattern(chunks[NthKept(k)])

\* a diff of two chunks: the first has a degenerate pattern and is dropped,
\* the second is kept
C3_Witness ==
    /\ pc = "done"
    /\ Len(chunks) = 2
    /\ ChunkPattern(chunks[1]) # Undefined
    /\ Degenerate(ChunkPattern(chunks[1]).condition)
    /\ patterns = <<ChunkPattern(chunks[2])>>

\* the chunk has no source, or the tokenizer gives up on one of its texts
FailedChunk(c) == Missing(makePatternsFromChunk(c))

\* C5: with an argument absent or a side the tokenizer returns undefined for,
\* makePatterns returns undefined; tokenize is called at most once per side
\* and chunk; makePatternsFromDiff goes on to the later chunks, and returns
\* what it returns for the chunks without the failed ones.
C5_FailedChunkIsSkipped ==
    /\ (pc = "returned" /\ Missing(args)) => pattern = Undefined
    /\ \A i \in 1..Len(calls) : calls[i].before <= 1 /\ calls[i].after <= 1
    /\ idx >= 1 => Len(calls) = (IF pc = "done" THEN Len(chunks) ELSE idx)
    /\ pc = "done" =>
          /\ idx = Len(chunks) + 1
          /\ patterns = makePatternsFromDiffResult(
                            SelectSeq(chunks, LAMBDA c : ~FailedChunk(c)))

\* a diff of two chunks: the tokenizer gives up on the first, the second
\* yields the one pattern of the result
C5_Witness ==
    /\ pc = "done"
    /\ Len(chunks) = 2
    /\ ~chunks[1].deleted.ok
    /\ calls[1] = [before |-> 1, after |-> 1]
    /\ Len(patterns) = 1

====
